---- MODULE Spec2Model ----
(***************************************************************************)
(* TinyFox URL shortener (src/main.py): the links table, the two shorten   *)
(* handlers (form path shorten_ui, API path api_shorten), gen_code, the     *)
(* redirect handler and the handlers that only read (api_info, stats,      *)
(* home), as concurrently running requests over one store.                 *)
(*                                                                         *)
(* A handler is cut into steps at its accesses to the shared store and to  *)
(* the clock: a query, a clock read, a commit.  Between two steps of one   *)
(* request any step of another request, or a clock tick, may happen.       *)
(*                                                                         *)
(* Nullable values are sets: None is {}, a present value x is {x}.         *)
(* A code is the sequence of its characters.  A URL string is the record   *)
(* of its scheme, host and path.  Time is counted in days.                 *)
(***************************************************************************)
EXTENDS Integers, Sequences, FiniteSets, TLC

VARIABLES
    store,     \* the links table: the sequence of rows, store[i].id = i
    now,       \* the clock datetime.utcnow() reads
    req,       \* the request-handling units: what each is running and where
    given,     \* history: the URL each Shorten that created a row was called with
    expired    \* history: the codes for which a 410 "Link expired" was sent

vars == <<store, now, req, given, expired>>

---------------------------------------------------------------------------
(* Bounds of the model *)

\* Number of rows the table may hold when only Shorten calls run.
MaxRows == 2
\* Number of rows the table may hold when Shorten and Resolve calls run.
MaxLinks == 1
\* Last instant of the clock.
MaxTime == 2
\* A redirect is accepted only while the link has fewer clicks than this.
MaxClicks == 2
\* Length of a generated code (the handlers ask gen_code for 7 characters).
GenLen == 1

\* The request-handling units: two requests may be in flight at once.
Reqs == {"u1", "u2"}

---------------------------------------------------------------------------
(* Values *)

None == {}
Some(x) == {x}
Get(o) == CHOOSE x \in o : TRUE

\* ALPHABET = string.ascii_letters + string.digits
ALPHABET ==
    { "a","b","c","d","e","f","g","h","i","j","k","l","m",
      "n","o","p","q","r","s","t","u","v","w","x","y","z",
      "A","B","C","D","E","F","G","H","I","J","K","L","M",
      "N","O","P","Q","R","S","T","U","V","W","X","Y","Z",
      "0","1","2","3","4","5","6","7","8","9" }

\* The characters secrets.choice draws in the model: a part of ALPHABET.
DrawChars == {"a", "b"}

\* All strings of n characters over the set chars.
RECURSIVE Strings(_, _)
Strings(chars, n) ==
    IF n = 0 THEN {<<>>}
    ELSE {Append(s, c) : s \in Strings(chars, n - 1), c \in chars}

\* The candidates one pass of gen_code's loop may draw.
Candidates(n) == Strings(DrawChars, n)

Url(scheme, host, path) == [scheme |-> scheme, host |-> host, path |-> path]

\* AnyHttpUrl: an absolute URL whose scheme is http or https, with a host.
\* Both paths are taken to accept exactly these: the API path by the type of
\* ShortenRequest.url, the form path by AnyHttpUrl.validate.
ValidUrl(u) == u.scheme \in {"http", "https"} /\ u.host /= ""

\* The host as the parsed URL holds it: an international host in its
\* ASCII (punycode) form.
AsciiHost(h) ==
    CASE h = "bücher.example" -> "xn--bcher-kva.example"
      [] OTHER -> h

\* str(payload.url): the parsed URL written out again.
UrlStr(u) == Url(u.scheme, AsciiHost(u.host), u.path)

\* Python truth of an Optional[str] and of an Optional[int].
TruthyStr(o) == o /= None /\ Get(o) /= <<>>
TruthyInt(o) == o /= None /\ Get(o) /= 0

---------------------------------------------------------------------------
(* The links table *)

\* db.query(Link).filter_by(code=code).first()
First(s, code) ==
    LET hits == {i \in DOMAIN s : s[i].code = code}
    IN  IF hits = {} THEN None
        ELSE Some(s[CHOOSE i \in hits : \A j \in hits : i <= j])

\* NewLink that stamps last_accessed with the time of creation.
NewLink_Accessed(s, t, code, long_url, expires_at, note) ==
    [ id            |-> Len(s) + 1,
      code          |-> code,
      long_url      |-> long_url,
      created_at    |-> t,
      clicks        |-> 0,
      last_accessed |-> Some(t),
      expires_at    |-> expires_at,
      active        |-> TRUE,
      note          |-> note ]

\* Link(code=..., long_url=..., expires_at=..., note=...) with the column
\* defaults the INSERT fills in.
NewLink(s, t, code, long_url, expires_at, note) ==
    [ id            |-> Len(s) + 1,
      code          |-> code,
      long_url      |-> long_url,
      created_at    |-> t,
      clicks        |-> 0,
      last_accessed |-> None,
      expires_at    |-> expires_at,
      active        |-> TRUE,
      note          |-> note ]

\* code = Column(String(16), unique=True, ...): the INSERT of a code that a
\* row already has is refused.
UniqueViolation(s, code) == \E i \in DOMAIN s : s[i].code = code

---------------------------------------------------------------------------
(* Requests *)

\* A unit that has not served a request yet.  A unit that has responded holds
\* the op, the code and the response of its last request and nothing else.
Idle ==
    [ op |-> "idle", pc |-> "idle",
      url |-> None, custom |-> None, days |-> None, note |-> None,
      code |-> None, expires_at |-> None, at |-> None,
      link |-> None, late |-> FALSE,
      result |-> "", target |-> None ]

Free(r) == req[r].pc \in {"idle", "done"}

Responded(op, code, res, target, late) ==
    [Idle EXCEPT !.op = op, !.pc = "done", !.code = code, !.result = res,
                 !.target = target, !.late = late]

Done(r, res) ==
    [req EXCEPT ![r] = Responded(req[r].op, req[r].code, res, None, req[r].late)]

\* Inputs of the model.
Plain == Url("https", "example.com", "/page")
Idn == Url("https", "bücher.example", "/")
Ftp == Url("ftp", "example.com", "/file")

Urls ==
    { Plain, Idn, Ftp }

TooLong == [i \in 1..17 |-> "a"]

CustomCodes ==
    { None, Some(<<>>), Some(<<"a", "b">>), Some(<<"a", "!">>), Some(TooLong) }

DaysIn == { None, Some(0), Some(0 - 5), Some(1) }

Notes == { None }

\* The request bodies of the model of the Shorten calls: every
\* expires_in_days with a generated code, every URL with a valid custom code,
\* every custom code.
Bodies ==
         {<<Plain, None, d>> : d \in DaysIn}
    \cup {<<u, Some(<<"a", "b">>), None>> : u \in Urls}
    \cup {<<Plain, c, None>> : c \in CustomCodes}
    \cup {<<Plain, Some(<<"a", "b">>), Some(1)>>}

\* Codes a redirect is asked for.
AskedCodes == Candidates(GenLen) \cup {<<"a", "b">>, <<"a", "!">>}

\* The request bodies of the model of the whole system.
FewBodies ==
    { <<Plain, None, Some(1)>>, <<Plain, None, None>>,
      <<Idn, Some(<<"a", "b">>), None>>, <<Ftp, None, None>> }

\* The request bodies of the model of two links: links that expire.
LinkBodies ==
    { <<Plain, None, Some(1)>> }

Shortening ==
    {r \in Reqs : req[r].op \in {"shorten_ui", "api_shorten"} /\ req[r].pc /= "done"}

\* The table, with the rows the Shorten calls in flight may add, holds fewer
\* than n rows.
Room(n) == Len(store) + Cardinality(Shortening) < n

\* The link of this code, if any, has fewer than MaxClicks clicks.
Countable(code) ==
    \A i \in DOMAIN store : store[i].code = code => store[i].clicks < MaxClicks

---------------------------------------------------------------------------
(* The state after construction: an empty table (create_all), no request *)

Init ==
    /\ store = <<>>
    /\ now = 0
    /\ req = [r \in Reqs |-> Idle]
    /\ given = <<>>
    /\ expired = {}

\* The clock advances.
Tick ==
    /\ now < MaxTime
    /\ now' = now + 1
    /\ UNCHANGED <<store, req, given, expired>>

\* ExpiresAt without the test d > 0.
ExpiresAt_AnyDays(days, t) ==
    IF TruthyInt(days) THEN Some(t + Get(days)) ELSE None

\* expires_at as both handlers compute it from expires_in_days at time t.
ExpiresAt(days, t) ==
    IF TruthyInt(days) /\ Get(days) > 0 THEN Some(t + Get(days)) ELSE None

\* The custom-code test of the form path.
ValidCustomCode(c) ==
    /\ 1 <= Len(c) /\ Len(c) <= 16
    /\ \A i \in 1..Len(c) : c[i] \in ALPHABET \cup {"-", "_"}

\* Insert into a table whose code column has no unique index.
Insert_NoUniqueIndex(s, t, code, long_url, expires_at, note) ==
    Append(s, NewLink(s, t, code, long_url, expires_at, note))

\* db.add(link); db.commit(): the INSERT, refused by the unique index on code.
Insert(s, t, code, long_url, expires_at, note) ==
    IF UniqueViolation(s, code) THEN s
    ELSE Append(s, NewLink(s, t, code, long_url, expires_at, note))

\* Flush that writes every column of the loaded row back.
Flush_WholeRow(s, link, dirty) ==
    [s EXCEPT ![link.id] = link]

\* Flush whose UPDATE has no WHERE clause: it sets the columns in every row.
Flush_AllRows(s, link, dirty) ==
    [i \in DOMAIN s |->
        [col \in DOMAIN s[i] |-> IF col \in dirty THEN link[col] ELSE s[i][col]]]

\* db.commit() of a loaded row: the UPDATE sets the columns the handler
\* assigned (dirty), of the row with the loaded id, and no other column.
Flush(s, link, dirty) ==
    [s EXCEPT ![link.id] =
        [col \in DOMAIN @ |-> IF col \in dirty THEN link[col] ELSE @[col]]]

\* The URLs the rows were created from, after the commit of request r.
Given(r, s) ==
    IF Len(s) > Len(store) THEN Append(given, Get(req[r].url)) ELSE given

---------------------------------------------------------------------------
(* gen_code(n, db): one pass of its loop *)

\* GenCode that returns its candidate without the query.
GenCode_NoCheck(r) ==
    /\ req[r].pc = "gen"
    /\ \E c \in Candidates(GenLen) :
          req' = [req EXCEPT ![r].code = Some(c), ![r].pc = "check"]
    /\ UNCHANGED <<store, now, given, expired>>

GenCode(r) ==
    /\ req[r].pc = "gen"
    /\ \E c \in Candidates(GenLen) :
          IF First(store, c) = None
          THEN req' = [req EXCEPT ![r].code = Some(c), ![r].pc = "check"]
          ELSE req' = req
    /\ UNCHANGED <<store, now, given, expired>>

---------------------------------------------------------------------------
(* POST /api/shorten *)

\* The request arrives and its body is validated as a ShortenRequest;
\* code = payload.custom_code or gen_code(7, db) takes the custom code.
ApiShortenStart(r, url, custom, days, note) ==
    /\ Free(r)
    /\ LET q == [Idle EXCEPT !.op = "api_shorten", !.url = Some(url),
                             !.custom = custom, !.days = days, !.note = note]
       IN  req' = [req EXCEPT ![r] =
                IF ~ValidUrl(url)
                THEN Responded("api_shorten", None, "InvalidUrl", None, FALSE)
                ELSE IF TruthyStr(custom)
                THEN [q EXCEPT !.pc = "check", !.code = custom]
                ELSE [q EXCEPT !.pc = "gen"]]
    /\ UNCHANGED <<store, now, given, expired>>

\* ApiShortenCheck without the existence check.
ApiShortenCheck_NoLookup(r) ==
    /\ req[r].op = "api_shorten" /\ req[r].pc = "check"
    /\ req' = [req EXCEPT ![r].expires_at = ExpiresAt(req[r].days, now),
                          ![r].at = Some(now),
                          ![r].pc = "insert"]
    /\ UNCHANGED <<store, now, given, expired>>

\* The existence check of a custom code, then expires_at.
ApiShortenCheck(r) ==
    /\ req[r].op = "api_shorten" /\ req[r].pc = "check"
    /\ IF TruthyStr(req[r].custom) /\ First(store, Get(req[r].custom)) /= None
       THEN req' = Done(r, "CodeTaken")
       ELSE req' = [req EXCEPT ![r].expires_at = ExpiresAt(req[r].days, now),
                               ![r].at = Some(now),
                               ![r].pc = "insert"]
    /\ UNCHANGED <<store, now, given, expired>>

\* Link(...), db.add, db.commit, db.refresh and the response.
ApiShortenCommit(r) ==
    /\ req[r].op = "api_shorten" /\ req[r].pc = "insert"
    /\ store' = Insert(store, now, Get(req[r].code), UrlStr(Get(req[r].url)),
                       req[r].expires_at, req[r].note)
    /\ req' = Done(r, IF UniqueViolation(store, Get(req[r].code))
                      THEN "IntegrityError" ELSE "Created")
    /\ given' = Given(r, store')
    /\ UNCHANGED <<now, expired>>

---------------------------------------------------------------------------
(* POST /shorten (the form) *)

\* The form arrives; the URL and the custom code are validated.
ShortenUiStart(r, url, custom, days, note) ==
    /\ Free(r)
    /\ LET q == [Idle EXCEPT !.op = "shorten_ui", !.url = Some(url),
                             !.custom = custom, !.days = days, !.note = note]
       IN  req' = [req EXCEPT ![r] =
                IF ~ValidUrl(url)
                THEN Responded("shorten_ui", None, "InvalidUrl", None, FALSE)
                ELSE IF TruthyStr(custom)
                THEN IF ~ValidCustomCode(Get(custom))
                     THEN Responded("shorten_ui", None, "InvalidCustomCode", None, FALSE)
                     ELSE [q EXCEPT !.pc = "check", !.code = custom]
                ELSE [q EXCEPT !.pc = "gen"]]
    /\ UNCHANGED <<store, now, given, expired>>

\* The existence check of a custom code, then expires_at.
ShortenUiCheck(r) ==
    /\ req[r].op = "shorten_ui" /\ req[r].pc = "check"
    /\ IF TruthyStr(req[r].custom) /\ First(store, Get(req[r].custom)) /= None
       THEN req' = Done(r, "CodeTaken")
       ELSE req' = [req EXCEPT ![r].expires_at = ExpiresAt(req[r].days, now),
                               ![r].at = Some(now),
                               ![r].pc = "insert"]
    /\ UNCHANGED <<store, now, given, expired>>

\* Link(...), db.add, db.commit, db.refresh and the page.
ShortenUiCommit(r) ==
    /\ req[r].op = "shorten_ui" /\ req[r].pc = "insert"
    /\ store' = Insert(store, now, Get(req[r].code), Get(req[r].url),
                       req[r].expires_at, req[r].note)
    /\ req' = Done(r, IF UniqueViolation(store, Get(req[r].code))
                      THEN "IntegrityError" ELSE "Created")
    /\ given' = Given(r, store')
    /\ UNCHANGED <<now, expired>>

---------------------------------------------------------------------------
(* GET /{code} *)

\* RedirectQuery that answers 404 only when there is no row.
RedirectQuery_IgnoresActive(r, code) ==
    /\ Free(r)
    /\ LET link == First(store, code)
           late == code \in expired
       IN  req' = [req EXCEPT ![r] =
                IF link = None
                THEN Responded("redirect", Some(code), "NotFound", None, late)
                ELSE [Idle EXCEPT !.op = "redirect", !.pc = "loaded",
                                  !.code = Some(code), !.link = link, !.late = late]]
    /\ UNCHANGED <<store, now, given, expired>>

\* The row is loaded; no row or an inactive row is answered 404.
RedirectQuery(r, code) ==
    /\ Free(r)
    /\ LET link == First(store, code)
           late == code \in expired
       IN  req' = [req EXCEPT ![r] =
                IF link = None \/ ~Get(link).active
                THEN Responded("redirect", Some(code), "NotFound", None, late)
                ELSE [Idle EXCEPT !.op = "redirect", !.pc = "loaded",
                                  !.code = Some(code), !.link = link, !.late = late]]
    /\ UNCHANGED <<store, now, given, expired>>

\* RedirectCheck that takes a link without expires_at for an expired one.
RedirectCheck_NoneExpired(r) ==
    /\ req[r].op = "redirect" /\ req[r].pc = "loaded"
    /\ LET link == Get(req[r].link)
       IN  req' = [req EXCEPT ![r].at = Some(now),
                              ![r].pc = IF link.expires_at = None
                                            \/ now > Get(link.expires_at)
                                        THEN "expiring" ELSE "counting"]
    /\ UNCHANGED <<store, now, given, expired>>

\* The expiry test against the clock; utcnow() for last_accessed.
RedirectCheck(r) ==
    /\ req[r].op = "redirect" /\ req[r].pc = "loaded"
    /\ LET link == Get(req[r].link)
       IN  req' = [req EXCEPT ![r].at = Some(now),
                              ![r].pc = IF link.expires_at /= None
                                            /\ now > Get(link.expires_at)
                                        THEN "expiring" ELSE "counting"]
    /\ UNCHANGED <<store, now, given, expired>>

\* RedirectExpire that answers 410 without the commit.
RedirectExpire_NoCommit(r) ==
    /\ req[r].op = "redirect" /\ req[r].pc = "expiring"
    /\ req' = Done(r, "Expired")
    /\ expired' = expired \cup req[r].code
    /\ UNCHANGED <<store, now, given>>

\* link.active = False; db.commit(); then 410.
RedirectExpire(r) ==
    /\ req[r].op = "redirect" /\ req[r].pc = "expiring"
    /\ store' = Flush(store, [Get(req[r].link) EXCEPT !.active = FALSE], {"active"})
    /\ req' = Done(r, "Expired")
    /\ expired' = expired \cup req[r].code
    /\ UNCHANGED <<now, given>>

\* RedirectCount that stamps last_accessed and leaves clicks alone.
RedirectCount_NoIncrement(r) ==
    /\ req[r].op = "redirect" /\ req[r].pc = "counting"
    /\ LET link == Get(req[r].link)
       IN  /\ store' = Flush(store, [link EXCEPT !.last_accessed = req[r].at],
                             {"last_accessed"})
           /\ req' = [req EXCEPT ![r] =
                         Responded("redirect", req[r].code, "Redirect",
                                   Some(link.long_url), req[r].late)]
    /\ UNCHANGED <<now, given, expired>>

\* link.clicks += 1; link.last_accessed = ...; db.commit(); then the 307 to
\* long_url.
RedirectCount(r) ==
    /\ req[r].op = "redirect" /\ req[r].pc = "counting"
    /\ LET link == Get(req[r].link)
       IN  /\ store' = Flush(store,
                             [link EXCEPT !.clicks = @ + 1,
                                          !.last_accessed = req[r].at],
                             {"clicks", "last_accessed"})
           /\ req' = [req EXCEPT ![r] =
                         Responded("redirect", req[r].code, "Redirect",
                                   Some(link.long_url), req[r].late)]
    /\ UNCHANGED <<now, given, expired>>

---------------------------------------------------------------------------
(* The handlers that only read *)

\* GET /api/info/{code}: the row's columns, or 404 when there is no row.
ApiInfo(r, code) ==
    /\ Free(r)
    /\ req' = [req EXCEPT ![r] =
                  Responded("api_info", Some(code),
                            IF First(store, code) = None THEN "NotFound" ELSE "Info",
                            None, FALSE)]
    /\ UNCHANGED <<store, now, given, expired>>

\* GET /stats/{code}: the statistics page of the row, or 404.
Stats(r, code) ==
    /\ Free(r)
    /\ req' = [req EXCEPT ![r] =
                  Responded("stats", Some(code),
                            IF First(store, code) = None THEN "NotFound" ELSE "Page",
                            None, FALSE)]
    /\ UNCHANGED <<store, now, given, expired>>

\* GET /: the page with the ten most recent links.
Home(r) ==
    /\ Free(r)
    /\ req' = [req EXCEPT ![r] = Responded("home", None, "Page", None, FALSE)]
    /\ UNCHANGED <<store, now, given, expired>>

---------------------------------------------------------------------------

\* The whole system: Shorten and Resolve calls and the handlers that only
\* read, concurrently.
Next ==
    \/ Tick
    \/ \E r \in Reqs, b \in FewBodies, note \in Notes :
          Room(MaxLinks) /\ ApiShortenStart(r, b[1], b[2], b[3], note)
    \/ \E r \in Reqs, b \in FewBodies, note \in Notes :
          Room(MaxLinks) /\ ShortenUiStart(r, b[1], b[2], b[3], note)
    \/ \E r \in Reqs : GenCode(r)
    \/ \E r \in Reqs : ApiShortenCheck(r)
    \/ \E r \in Reqs : ApiShortenCommit(r)
    \/ \E r \in Reqs : ShortenUiCheck(r)
    \/ \E r \in Reqs : ShortenUiCommit(r)
    \/ \E r \in Reqs, code \in AskedCodes : Countable(code) /\ RedirectQuery(r, code)
    \/ \E r \in Reqs : RedirectCheck(r)
    \/ \E r \in Reqs : RedirectExpire(r)
    \/ \E r \in Reqs : RedirectCount(r)
    \/ \E r \in Reqs, code \in AskedCodes : ApiInfo(r, code)
    \/ \E r \in Reqs, code \in AskedCodes : Stats(r, code)
    \/ \E r \in Reqs : Home(r)

Spec == Init /\ [][Next]_vars

\* The Shorten calls alone, concurrently, over every request body.
NextShorten ==
    \/ Tick
    \/ \E r \in Reqs, b \in Bodies, note \in Notes :
          Room(MaxRows) /\ ApiShortenStart(r, b[1], b[2], b[3], note)
    \/ \E r \in Reqs, b \in Bodies, note \in Notes :
          Room(MaxRows) /\ ShortenUiStart(r, b[1], b[2], b[3], note)
    \/ \E r \in Reqs : GenCode(r)
    \/ \E r \in Reqs : ApiShortenCheck(r)
    \/ \E r \in Reqs : ApiShortenCommit(r)
    \/ \E r \in Reqs : ShortenUiCheck(r)
    \/ \E r \in Reqs : ShortenUiCommit(r)

SpecShorten == Init /\ [][NextShorten]_vars

\* The request bodies of the model of gen_code: no custom code.
GenBodies ==
    { <<Plain, None, None>> }

\* Shorten calls with generated codes, of both paths, one after another and
\* concurrently, until gen_code has no code left to return.
NextGen ==
    \/ Tick
    \/ \E r \in Reqs, b \in GenBodies, note \in Notes :
          ApiShortenStart(r, b[1], b[2], b[3], note)
    \/ \E r \in Reqs, b \in GenBodies, note \in Notes :
          ShortenUiStart(r, b[1], b[2], b[3], note)
    \/ \E r \in Reqs : GenCode(r)
    \/ \E r \in Reqs : ApiShortenCheck(r)
    \/ \E r \in Reqs : ApiShortenCommit(r)
    \/ \E r \in Reqs : ShortenUiCheck(r)
    \/ \E r \in Reqs : ShortenUiCommit(r)

\* A request that has started takes its next step, and a gen_code that has a
\* free code among its candidates draws one in the end (fair random draws).
FairGen ==
    \A r \in Reqs :
        /\ WF_vars(GenCode(r))
        /\ WF_vars(ApiShortenCheck(r)) /\ WF_vars(ApiShortenCommit(r))
        /\ WF_vars(ShortenUiCheck(r)) /\ WF_vars(ShortenUiCommit(r))

SpecGen == Init /\ [][NextGen]_vars /\ FairGen

\* Two links: Shorten calls of the API path with generated codes, Resolve
\* calls and the handlers that only read, asked for the codes gen_code draws,
\* concurrently, over a table of up to MaxRows rows.
NextLinks ==
    \/ Tick
    \/ \E r \in Reqs, b \in LinkBodies, note \in Notes :
          Room(MaxRows) /\ ApiShortenStart(r, b[1], b[2], b[3], note)
    \/ \E r \in Reqs : GenCode(r)
    \/ \E r \in Reqs : ApiShortenCheck(r)
    \/ \E r \in Reqs : ApiShortenCommit(r)
    \/ \E r \in Reqs, code \in Candidates(GenLen) :
          Countable(code) /\ RedirectQuery(r, code)
    \/ \E r \in Reqs : RedirectCheck(r)
    \/ \E r \in Reqs : RedirectExpire(r)
    \/ \E r \in Reqs : RedirectCount(r)
    \/ \E r \in Reqs, code \in Candidates(GenLen) : ApiInfo(r, code)
    \/ \E r \in Reqs, code \in Candidates(GenLen) : Stats(r, code)
    \/ \E r \in Reqs : Home(r)

SpecLinks == Init /\ [][NextLinks]_vars

---------------------------------------------------------------------------
(* Properties *)

\* The row of a code (codes are unique, see Unique).
RowOf(code) == Get(First(store, code))
HasRow(code) == First(store, code) /= None

\* Unit r responds in this step.
Responds(r) == req[r].pc /= "done" /\ req'[r].pc = "done"

\* C1: in every reachable state, under every interleaving of Shorten calls of
\* both paths with custom and generated codes, no two rows have the same code.
Unique ==
    \A i, j \in DOMAIN store : i /= j => store[i].code /= store[j].code

\* A Shorten lost the race for its code to another one: its INSERT was refused
\* and the table holds the code once.
UniqueWitness ==
    \E r \in Reqs :
        /\ req[r].result = "IntegrityError"
        /\ Cardinality({i \in DOMAIN store : store[i].code = Get(req[r].code)}) = 1

\* C2: the Resolve that finds an active link past its expires_at answers
\* Expired and not with a redirect, has written active = false by then, and
\* changes neither clicks nor last_accessed; every Resolve that starts after
\* an Expired answer for its code answers NotFound.
ExpiredOnce ==
    /\ [][\A r \in Reqs :
            /\ (req[r].pc = "expiring" /\ Responds(r)) =>
                  LET id == Get(req[r].link).id
                  IN  /\ req'[r].result = "Expired"
                      /\ ~store'[id].active
                      /\ store'[id].clicks = store[id].clicks
                      /\ store'[id].last_accessed = store[id].last_accessed
            /\ (req[r].pc = "loaded" /\ req'[r].pc = "counting") =>
                  LET link == Get(req[r].link)
                  IN  link.expires_at = None \/ now <= Get(link.expires_at)]_vars
    /\ [](\A r \in Reqs :
            (req[r].op = "redirect" /\ req[r].pc = "done" /\ req[r].late)
                => req[r].result = "NotFound")

\* A Resolve that started after the Expired answer for its code has answered.
ExpiredOnceWitness ==
    \E r \in Reqs :
        /\ req[r].op = "redirect" /\ req[r].pc = "done" /\ req[r].late
        /\ HasRow(Get(req[r].code)) /\ ~RowOf(Get(req[r].code)).active

\* C3: the Resolve of an active link that is not past its expires_at answers
\* with a redirect to the stored long_url, and its commit leaves the link with
\* one click more than the call found and with last_accessed at the time the
\* call read the clock.
CountsOneClick ==
    [][\A r \in Reqs :
          (req[r].pc = "counting" /\ Responds(r)) =>
              LET link == Get(req[r].link)
              IN  /\ req'[r].result = "Redirect"
                  /\ req'[r].target = Some(store[link.id].long_url)
                  /\ store'[link.id].clicks = link.clicks + 1
                  /\ store'[link.id].last_accessed = req[r].at]_vars

\* A Resolve has answered with a redirect and the link has a click.
CountsOneClickWitness ==
    \E r \in Reqs :
        /\ req[r].result = "Redirect"
        /\ RowOf(Get(req[r].code)).clicks > 0
        /\ RowOf(Get(req[r].code)).last_accessed /= None

\* C4: the Resolve of a code that has no row, or whose row is inactive, answers
\* NotFound and leaves the table as it is.
NotFoundNoEffect ==
    [][\A r \in Reqs :
          (Free(r) /\ req'[r] /= req[r] /\ req'[r].op = "redirect"
             /\ (~HasRow(Get(req'[r].code)) \/ ~RowOf(Get(req'[r].code)).active))
          => (req'[r].pc = "done" /\ req'[r].result = "NotFound" /\ store' = store)]_vars

\* A Resolve of an inactive link's code has answered NotFound.
NotFoundWitness ==
    \E r \in Reqs :
        /\ req[r].op = "redirect" /\ req[r].result = "NotFound"
        /\ HasRow(Get(req[r].code)) /\ ~RowOf(Get(req[r].code)).active

\* C5 as claimed: a redirect to a link created without expiry goes to exactly
\* the URL its Shorten was called with.
RoundTrip ==
    \A r \in Reqs :
        (req[r].result = "Redirect" /\ RowOf(Get(req[r].code)).expires_at = None)
            => req[r].target = Some(given[RowOf(Get(req[r].code)).id])

\* C6 as claimed: a Shorten given a custom code that is empty, longer than 16
\* characters or has a character outside letters, digits, - and _ answers
\* InvalidCustomCode and inserts no row.
RejectsInvalidCustom ==
    [][\A r \in Reqs :
          (req[r].pc = "insert" /\ req'[r] /= req[r]
             /\ req[r].custom /= None /\ ~ValidCustomCode(Get(req[r].custom)))
          => (req'[r].result = "InvalidCustomCode" /\ store' = store)]_vars

Inserts(r) ==
    req[r].pc = "insert" /\ Responds(r) /\ Len(store') = Len(store) + 1
Added == store'[Len(store')]

\* C8 as claimed: the created link has no expires_at when expires_in_days is
\* absent, 0 or negative, and expires_at = created_at + d days when it is d > 0.
ExpiryFromCreation ==
    [][\A r \in Reqs :
          Inserts(r) =>
              Added.expires_at =
                  IF req[r].days /= None /\ Get(req[r].days) > 0
                  THEN Some(Added.created_at + Get(req[r].days)) ELSE None]_vars

\* C8 amended: no expires_at when expires_in_days is absent, 0 or negative (and
\* the call creates the link); for d > 0, expires_at is the time the handler
\* read the clock, before its INSERT, plus d days, so at most created_at + d.
ExpiryFromClockRead ==
    [][\A r \in Reqs :
          Inserts(r) =>
              /\ req'[r].result = "Created"
              /\ Get(req[r].at) <= Added.created_at
              /\ Added.expires_at =
                    IF req[r].days /= None /\ Get(req[r].days) > 0
                    THEN Some(Get(req[r].at) + Get(req[r].days)) ELSE None]_vars

\* A link with an expires_at set before its creation time plus a day, and a
\* link without expires_at, have been created.
ExpiryWitness ==
    /\ \E i \in DOMAIN store :
          store[i].expires_at /= None /\ Get(store[i].expires_at) <= store[i].created_at
    /\ \E i \in DOMAIN store : store[i].expires_at = None

\* C9: a link that is inactive is inactive in every later state.
StaysInactive ==
    [][\A i \in DOMAIN store :
          ~store[i].active => (i \in DOMAIN store' /\ ~store'[i].active)]_vars

\* A Resolve that loaded the link while it was active is about to commit its
\* click to the link, which another Resolve has deactivated since.
StaysInactiveWitness ==
    \E r \in Reqs :
        /\ req[r].pc = "counting"
        /\ Get(req[r].link).active
        /\ ~store[Get(req[r].link).id].active

\* C10 as claimed: clicks of a link never decreases from one state to the next
\* and changes only in the step in which a Resolve of its code answers with a
\* redirect.
ClicksMonotone ==
    [][\A i \in DOMAIN store :
          /\ store'[i].clicks >= store[i].clicks
          /\ store'[i].clicks /= store[i].clicks =>
                \E r \in Reqs : /\ Responds(r) /\ req'[r].result = "Redirect"
                                /\ req'[r].code = Some(store[i].code)]_vars

\* The INSERT of unit r is refused in this step: a row has taken its code
\* since the unit looked.
Refused(r) ==
    /\ req[r].pc = "insert" /\ Responds(r)
    /\ UniqueViolation(store, Get(req[r].code))

\* C11 as claimed: of two Shorten calls with the same custom code that both
\* pass the existence check before either inserts, the one whose INSERT is
\* refused answers CodeTaken, and not with a storage failure.
RaceLoserCodeTaken ==
    [][\A r \in Reqs :
          (Refused(r) /\ TruthyStr(req[r].custom))
              => (req'[r].result = "CodeTaken" /\ store' = store)]_vars

\* C12 as claimed: a Shorten with no custom code, also one whose generated
\* code a concurrent Shorten inserted after gen_code looked, ends with its link
\* created, and never in CodeTaken or in a storage error.
GeneratedAlwaysCreated ==
    [][\A r \in Reqs :
          (req[r].pc = "insert" /\ Responds(r) /\ ~TruthyStr(req[r].custom))
              => (/\ req'[r].result = "Created"
                  /\ Len(store') = Len(store) + 1
                  /\ ~UniqueViolation(store, Added.code))]_vars

\* C13 as claimed: every Resolve that answers with a redirect leaves the stored
\* clicks of its link one higher than its commit found them, so that N
\* redirects, however their reads and commits interleave, add N clicks.
NoLostClick ==
    [][\A r \in Reqs :
          (req[r].pc = "counting" /\ Responds(r)) =>
              LET id == Get(req[r].link).id
              IN  store'[id].clicks = store[id].clicks + 1]_vars

\* Unit r answers a Resolve in this step.
Resolves(r) ==
    req'[r] /= req[r] /\ req'[r].op = "redirect" /\ req'[r].pc = "done"

\* The time is past the expires_at of the link of this code.
Past(code) ==
    /\ HasRow(code)
    /\ RowOf(code).expires_at /= None
    /\ now > Get(RowOf(code).expires_at)

\* C14 as claimed: a Resolve that answers when the time is past the
\* expires_at of its link answers Expired or NotFound and counts no click,
\* also when it loaded the row before another request deactivated it.
NoStaleRedirect ==
    [][\A r \in Reqs :
          (Resolves(r) /\ Past(Get(req'[r].code))) =>
              LET id == RowOf(Get(req'[r].code)).id
              IN  /\ req'[r].result \in {"Expired", "NotFound"}
                  /\ store'[id].clicks = store[id].clicks
                  /\ store'[id].last_accessed = store[id].last_accessed]_vars

\* C15 as claimed: of the Resolve calls that run concurrently on an expired,
\* still active link, one writes active = false and answers Expired: a Resolve
\* that answers Expired finds the link active in the table when it writes, and
\* is the first to answer Expired for the code.
OneDeactivation ==
    [][\A r \in Reqs :
          (req[r].pc = "expiring" /\ Responds(r)) =>
              /\ store[Get(req[r].link).id].active
              /\ Get(req[r].code) \notin expired]_vars

\* C16: a row, once created, stays in the table with its code, long_url,
\* created_at, expires_at and note; a row changes only in a step in which a
\* Resolve of its code answers, and then in clicks, last_accessed and active
\* alone; the steps of GetInfo, stats and the list of recent links leave the
\* table as it is.
Frame ==
    [][/\ Len(store') >= Len(store)
       /\ \A i \in DOMAIN store :
             /\ \A col \in {"id", "code", "long_url", "created_at",
                            "expires_at", "note"} :
                   store'[i][col] = store[i][col]
             /\ store'[i] /= store[i] =>
                   \E r \in Reqs : /\ req[r].op = "redirect" /\ Resolves(r)
                                   /\ req[r].code = Some(store[i].code)
       /\ \A r \in Reqs :
             (req'[r] /= req[r] /\ req'[r].op \in {"api_info", "stats", "home"})
                 => store' = store]_vars

\* Resolve calls have changed one of two links and not the other, and a
\* GetInfo has answered.
FrameWitness ==
    /\ Len(store) = 2
    /\ store[1].clicks > 0 /\ ~store[1].active
    /\ store[2].clicks = 0 /\ store[2].active
    /\ \E r \in Reqs : req[r].op = "api_info" /\ req[r].result = "Info"

\* C17: the code gen_code returns has the length asked for, has only letters
\* and digits, and is the code of no row of the table at the time gen_code
\* returns it (the time of its last query).
FreshCode ==
    [][\A r \in Reqs :
          (req[r].pc = "gen" /\ req'[r].pc /= "gen") =>
              LET c == Get(req'[r].code)
              IN  /\ Len(c) = GenLen
                  /\ \A i \in 1..Len(c) : c[i] \in ALPHABET
                  /\ ~HasRow(c)]_vars

\* gen_code has returned a code to a Shorten while a row of the table has
\* another code it may draw.
FreshCodeWitness ==
    \E r \in Reqs :
        /\ req[r].pc = "check" /\ ~TruthyStr(req[r].custom)
        /\ \E c \in Candidates(GenLen) : HasRow(c) /\ req[r].code /= Some(c)

\* C18 as claimed: every Shorten with no custom code completes in the end,
\* gen_code returning under fair draws in every state of the table, also when
\* every code of the length asked for is taken.
GenTerminates ==
    \A r \in Reqs : (req[r].pc = "gen") ~> (req[r].pc = "done")

\* C19: an inactive link has an expires_at, and it is in the past; the Resolve
\* that deactivates a link read the clock after the link's expires_at; every
\* Resolve of the code of a link without expires_at answers with a redirect.
NeverExpiring ==
    /\ [](\A i \in DOMAIN store :
            ~store[i].active =>
                store[i].expires_at /= None /\ Get(store[i].expires_at) < now)
    /\ [][\A r \in Reqs :
            /\ (req[r].pc = "expiring" /\ Responds(r)) =>
                  LET row == store[Get(req[r].link).id]
                  IN  row.expires_at /= None
                         /\ Get(req[r].at) > Get(row.expires_at)
            /\ (Resolves(r) /\ HasRow(Get(req'[r].code))
                  /\ RowOf(Get(req'[r].code)).expires_at = None)
                  => req'[r].result = "Redirect"]_vars

\* At the last instant of the clock a Resolve has answered with a redirect to
\* a link without expires_at, which is active and has its click.
NeverExpiringWitness ==
    \E r \in Reqs :
        /\ now = MaxTime
        /\ req[r].op = "redirect" /\ req[r].result = "Redirect"
        /\ LET row == RowOf(Get(req[r].code))
           IN  row.expires_at = None /\ row.active /\ row.clicks > 0
                  /\ row.last_accessed = Some(MaxTime)

\* C20: in every state every link has last_accessed absent exactly when its
\* clicks is 0.
AccessedIffClicked ==
    \A i \in DOMAIN store :
        (store[i].last_accessed = None) <=> (store[i].clicks = 0)

\* A link has been resolved with a redirect and then deactivated by the
\* Resolve that answered Expired: it has its click and its last_accessed.
AccessedIffClickedWitness ==
    \E i \in DOMAIN store :
        /\ ~store[i].active
        /\ store[i].clicks > 0 /\ store[i].last_accessed /= None
        /\ \E r \in Reqs : req[r].result = "Expired" /\ req[r].code = Some(store[i].code)

====
